---- MODULE Spec2Model ----
(***************************************************************************)
(* Model of sqlh: the placeholder reindexer (reindex.go), the UPDATE       *)
(* builder (update.go), the INSERT builder (insert.go), the annotation     *)
(* parser (misc.go), the row mapper (scan.go) and the round trip of        *)
(* records through Insert and Scan.                                        *)
(* Strings are sequences of one-character strings.                         *)
(***************************************************************************)
EXTENDS Integers, Sequences, FiniteSets, TLC

\* ------------------------------------------------------------------ bounds
\* Longest SQL fragment handed to reindex.
MaxLen == 4
\* Largest offset handed to reindex.
MaxBase == 2

\* --------------------------------------------------------------- alphabet
DOLLAR == "$"
SQ == "'"
DQ == "\""
BS == "\\"
\* '0' <= c && c <= '9'
IsDigit(c) == c \in {"0", "1", "2", "3", "4", "5", "6", "7", "8", "9"}
\* The digits fragments are drawn from: one that leads, one that carries.
Digits == {"0", "1", "9"}
\* The characters fragments are drawn from: the marker, digits, both quotes,
\* the backslash and one character that means nothing to the lexer.
Chars == {DOLLAR, SQ, DQ, BS, "a"} \cup Digits

RECURSIVE StringsOfLen(_)
StringsOfLen(n) ==
  IF n = 0 THEN {<<>>}
  ELSE {Append(x, c) : x \in StringsOfLen(n - 1), c \in Chars}

Fragments == UNION {StringsOfLen(n) : n \in 0..MaxLen}

\* ------------------------------------------------------- strconv (Go std)
DigitVal(c) ==
  CASE c = "0" -> 0 [] c = "1" -> 1 [] c = "2" -> 2 [] c = "3" -> 3
    [] c = "4" -> 4 [] c = "5" -> 5 [] c = "6" -> 6 [] c = "7" -> 7
    [] c = "8" -> 8 [] c = "9" -> 9

DigitChar(d) ==
  CASE d = 0 -> "0" [] d = 1 -> "1" [] d = 2 -> "2" [] d = 3 -> "3"
    [] d = 4 -> "4" [] d = 5 -> "5" [] d = 6 -> "6" [] d = 7 -> "7"
    [] d = 8 -> "8" [] d = 9 -> "9"

\* strconv.Atoi on a non-empty run of decimal digits (no sign, within int).
RECURSIVE Atoi(_)
Atoi(ds) ==
  IF ds = <<>> THEN 0
  ELSE 10 * Atoi(SubSeq(ds, 1, Len(ds) - 1)) + DigitVal(ds[Len(ds)])

\* strconv.Itoa on a non-negative int.
RECURSIVE Itoa(_)
Itoa(n) ==
  IF n < 10 THEN <<DigitChar(n)>>
  ELSE Append(Itoa(n \div 10), DigitChar(n % 10))

\* ---------------------------------------------------------------- reindex
DEFAULT == 1
PARAMETER == 2
D_QUOTE == 3
D_QUOTE_ESCAPE == 4
S_QUOTE == 5
S_QUOTE_ESCAPE == 6

\* A mutant of ParamText: the digit-less marker is numbered as well.
ParamTextAlwaysNumbered(capture, k) ==
  <<DOLLAR>> \o Itoa(k + Atoi(capture))

\* The text emitted for a marker whose captured digits are `capture`.
ParamText(capture, k) ==
  IF Len(capture) > 0 THEN <<DOLLAR>> \o Itoa(k + Atoi(capture)) ELSE <<DOLLAR>>

\* One iteration of the loop over the runes of s: the switch of reindex.
\* A lexer state is [state, result, capture].
ReindexStep(st, c, k) ==
  CASE st.state = DEFAULT /\ c = SQ ->
         [st EXCEPT !.state = S_QUOTE, !.result = Append(@, c)]
    [] st.state = DEFAULT /\ c = DQ ->
         [st EXCEPT !.state = D_QUOTE, !.result = Append(@, c)]
    [] st.state = DEFAULT /\ c = DOLLAR ->
         [st EXCEPT !.state = PARAMETER]
    [] st.state = DEFAULT /\ c \notin {SQ, DQ, DOLLAR} ->
         [st EXCEPT !.result = Append(@, c)]
    [] st.state = PARAMETER /\ IsDigit(c) ->
         [st EXCEPT !.capture = Append(@, c)]
    [] st.state = PARAMETER /\ ~IsDigit(c) ->
         [state |-> DEFAULT,
          result |-> Append(st.result \o ParamText(st.capture, k), c),
          capture |-> <<>>]
    [] st.state = D_QUOTE /\ c = BS ->
         [st EXCEPT !.state = D_QUOTE_ESCAPE, !.result = Append(@, c)]
    [] st.state = D_QUOTE /\ c = DQ ->
         [st EXCEPT !.state = DEFAULT, !.result = Append(@, c)]
    [] st.state = D_QUOTE /\ c \notin {BS, DQ} ->
         [st EXCEPT !.result = Append(@, c)]
    [] st.state = D_QUOTE_ESCAPE ->
         [st EXCEPT !.state = D_QUOTE, !.result = Append(@, c)]
    [] st.state = S_QUOTE /\ c = BS ->
         [st EXCEPT !.state = S_QUOTE_ESCAPE, !.result = Append(@, c)]
    [] st.state = S_QUOTE /\ c = SQ ->
         [st EXCEPT !.state = DEFAULT, !.result = Append(@, c)]
    [] st.state = S_QUOTE /\ c \notin {BS, SQ} ->
         [st EXCEPT !.result = Append(@, c)]
    [] st.state = S_QUOTE_ESCAPE ->
         [st EXCEPT !.state = S_QUOTE, !.result = Append(@, c)]

RECURSIVE ReindexLoop(_, _, _, _)
ReindexLoop(st, str, i, k) ==
  IF i > Len(str) THEN st
  ELSE ReindexLoop(ReindexStep(st, str[i], k), str, i + 1, k)

\* reindex(s, base): the loop, then the marker still open at end of input.
reindex(str, k) ==
  LET st == ReindexLoop([state |-> DEFAULT, result |-> <<>>, capture |-> <<>>],
                        str, 1, k)
  IN IF st.state = PARAMETER
       THEN st.result \o ParamText(st.capture, k)
       ELSE st.result

\* ----------------------------------------------------------- record types
\* A struct type is the sequence of its reflect.StructFields. A field has a
\* Name, is exported or not (PkgPath), is embedded or not (Anonymous), has
\* an `sql` tag or not (Tag.Lookup) and a Kind; an embedded field carries the
\* fields of its struct type. Text is a sequence of pieces, "/" its own piece.
NoTag == [ok |-> FALSE, value |-> <<>>]
Tag(text) == [ok |-> TRUE, value |-> text]

Leaf(name, exported, tag, kind) ==
  [name |-> name, exported |-> exported, anonymous |-> FALSE, tag |-> tag,
   kind |-> kind, fields |-> <<>>]

Embedded(name, exported, fields) ==
  [name |-> name, exported |-> exported, anonymous |-> TRUE, tag |-> NoTag,
   kind |-> "struct", fields |-> fields]

\* type e struct { A string `sql:"a"`; B *string `sql:"b"` }
\* type up struct { e; C int `sql:"c"`; y string; Z string `sql:"-"` }
Type_e ==
  <<Leaf("A", TRUE, Tag(<<"a">>), "string"), Leaf("B", TRUE, Tag(<<"b">>), "ptr")>>
Type_up ==
  <<Embedded("e", FALSE, Type_e),
    Leaf("C", TRUE, Tag(<<"c">>), "int"),
    Leaf("y", FALSE, NoTag, "string"),
    Leaf("Z", TRUE, Tag(<<"-">>), "string")>>

\* struct { ID int64 `sql:"id/update"`; A string `sql:"a"`; N int `sql:"n/Insert"` }
Type_ign ==
  <<Leaf("ID", TRUE, Tag(<<"id", "/", "update">>), "int"),
    Leaf("A", TRUE, Tag(<<"a">>), "string"),
    Leaf("N", TRUE, Tag(<<"n", "/", "Insert">>), "int")>>

\* struct { A string `sql:"a"`; y string `sql:"y"` }
Type_unexp ==
  <<Leaf("A", TRUE, Tag(<<"a">>), "string"),
    Leaf("y", FALSE, Tag(<<"y">>), "string")>>

\* type L3 struct { P int `sql:"p"`; Q int `sql:"q"` }; type L2 struct { L3 }
\* type L1 struct { L2 }; type deep struct { L1; B string `sql:"b"` }
Type_L3 ==
  <<Leaf("P", TRUE, Tag(<<"p">>), "int"), Leaf("Q", TRUE, Tag(<<"q">>), "int")>>
Type_L2 == <<Embedded("L3", TRUE, Type_L3)>>
Type_L1 == <<Embedded("L2", TRUE, Type_L2)>>
Type_deep ==
  <<Embedded("L1", TRUE, Type_L1), Leaf("B", TRUE, Tag(<<"b">>), "string")>>

\* struct { Z string `sql:"-"` }
Type_nocol == <<Leaf("Z", TRUE, Tag(<<"-">>), "string")>>

StructTypes == {"up", "ign", "unexp", "deep", "nocol"}

\* reflect.Type of a struct type, by name.
TypeFields(tn) ==
  CASE tn = "up" -> Type_up
    [] tn = "ign" -> Type_ign
    [] tn = "unexp" -> Type_unexp
    [] tn = "deep" -> Type_deep
    [] tn = "nocol" -> Type_nocol

\* The number of leaf fields of a struct type.
RECURSIVE NumLeaves(_)
NumLeaves(t) ==
  IF t = <<>> THEN 0
  ELSE NumLeaves(Tail(t))
         + (IF Head(t).anonymous THEN NumLeaves(Head(t).fields) ELSE 1)

\* A struct value is the sequence of the values of its leaf fields, depth
\* first. A value is "zero", "nil" (a nil pointer), "&zero" (a pointer to a
\* zero value) or a non-zero value named after the field.
LeafValues(f) ==
  IF f.kind = "ptr" THEN {"nil", "&zero", "&v" \o f.name}
  ELSE {"zero", "v" \o f.name}

RECURSIVE ValuesOf(_)
ValuesOf(t) ==
  IF t = <<>> THEN {<<>>}
  ELSE LET f == t[Len(t)]
           fv == IF f.anonymous THEN ValuesOf(f.fields)
                 ELSE {<<x>> : x \in LeafValues(f)}
       IN {x \o y : x \in ValuesOf(SubSeq(t, 1, Len(t) - 1)), y \in fv}

\* The values a caller may hand over: structs of the types above, and one
\* value that is no struct.
StructsOf(tn) == {[type |-> tn, val |-> v] : v \in ValuesOf(TypeFields(tn))}
Structs == UNION {StructsOf(tn) : tn \in StructTypes}
NonStruct == [type |-> "int", val |-> <<"vInt">>]

\* reflect.Value.Kind of a value handed over.
KindOf(x) == IF x.type \in StructTypes THEN "struct" ELSE "int"

\* Position, among the leaves of t, of the field with index sequence path
\* (indices count from 1 here, from 0 in Go).
RECURSIVE LeafPos(_, _)
LeafPos(t, path) ==
  LET i == Head(path) IN
  NumLeaves(SubSeq(t, 1, i - 1))
    + (IF t[i].anonymous THEN LeafPos(t[i].fields, Tail(path)) ELSE 1)

\* reflect.StructField of the field with index sequence path.
RECURSIVE FieldAt(_, _)
FieldAt(t, path) ==
  IF Len(path) = 1 THEN t[Head(path)]
  ELSE FieldAt(t[Head(path)].fields, Tail(path))

\* v.FieldByIndex(path)
FieldByIndex(x, path) == x.val[LeafPos(TypeFields(x.type), path)]

\* reflect.Value.IsZero: a pointer is zero when nil, whatever it points to.
IsZero(kind, v) == IF kind = "ptr" THEN v = "nil" ELSE v = "zero"

\* reflect.Value.Interface panics on a value obtained from an unexported field.
InterfacePanics(f) == ~f.exported

\* ----------------------------------------------------------------- parseTag
\* strings.ToLower, on the pieces that occur in tags and contexts.
ToLowerPiece(p) ==
  CASE p \in {"UPDATE", "Update"} -> "update"
    [] p \in {"INSERT", "Insert"} -> "insert"
    [] p \in {"SELECT", "Select"} -> "select"
    [] OTHER -> p

ToLower(text) == [i \in 1..Len(text) |-> ToLowerPiece(text[i])]

\* strings.Split(text, sep): the parts between the separators.
RECURSIVE Split(_, _)
Split(text, sep) ==
  IF \A i \in 1..Len(text) : text[i] # sep THEN <<text>>
  ELSE LET k == CHOOSE i \in 1..Len(text) :
                  text[i] = sep /\ \A j \in 1..(i - 1) : text[j] # sep
       IN <<SubSeq(text, 1, k - 1)>> \o Split(SubSeq(text, k + 1, Len(text)), sep)

\* A mutant of parseTag: a context list excludes the field in every context.
parseTagAnyContext(tag, context) ==
  LET ss == Split(tag, "/")
  IN [name |-> ss[1], ignore |-> Len(ss) > 1 \/ ss[1] = <<"-">>]

\* parseTag(tag, context): the column name and whether the field is ignored.
parseTag(tag, context) ==
  LET ss == Split(tag, "/")
  IN IF Len(ss) = 1 THEN [name |-> ss[1], ignore |-> ss[1] = <<"-">>]
     ELSE IF \E i \in 2..Len(ss) : ToLower(ss[i]) = ToLower(context)
       THEN [name |-> ss[1], ignore |-> TRUE]
       ELSE [name |-> ss[1], ignore |-> FALSE]

\* strings.Join(parts, sep)
RECURSIVE Join(_, _)
Join(parts, sep) ==
  IF parts = <<>> THEN <<>>
  ELSE IF Len(parts) = 1 THEN parts[1]
  ELSE parts[1] \o <<sep>> \o Join(Tail(parts), sep)

\* ------------------------------------------------------------------ slices
\* A slice is [arr, len, cap]: a backing array of the heap (0: none), the
\* length and the capacity. The heap is the sequence of backing arrays; a
\* slot never written holds the zero value of the element type.
NilSlice == [arr |-> 0, len |-> 0, cap |-> 0]

\* runtime.growslice for the small slices of this package: the capacity
\* doubles unless the new length needs more (the size classes leave the
\* capacities reached here as they are).
GrowCap(oldCap, newLen) == IF newLen > 2 * oldCap THEN newLen ELSE 2 * oldCap

\* The capacity of a nil slice after n appends of one element each.
RECURSIVE CapAfterAppends(_)
CapAfterAppends(n) ==
  IF n = 0 THEN 0
  ELSE LET c == CapAfterAppends(n - 1) IN IF n <= c THEN c ELSE GrowCap(c, n)

Elems(h, sl) == IF sl.len = 0 THEN <<>> ELSE SubSeq(h[sl.arr], 1, sl.len)

Padded(xs, cap, zero) ==
  [i \in 1..cap |-> IF i <= Len(xs) THEN xs[i] ELSE zero]

\* A mutant of AppendAll: append always copies into a fresh array.
AppendAllCopying(h, sl, xs, zero) ==
  LET cap == IF sl.len + Len(xs) <= sl.cap THEN sl.cap
             ELSE GrowCap(sl.cap, sl.len + Len(xs))
  IN [heap |-> Append(h, Padded(Elems(h, sl) \o xs, cap, zero)),
      slice |-> [arr |-> Len(h) + 1, len |-> sl.len + Len(xs), cap |-> cap]]

\* append(sl, xs...): in place when the capacity allows (the backing array is
\* then shared with sl), into a fresh array otherwise.
AppendAll(h, sl, xs, zero) ==
  IF sl.len + Len(xs) <= sl.cap
    THEN [heap |-> IF Len(xs) = 0 THEN h
                   ELSE [h EXCEPT ![sl.arr] =
                           [i \in 1..sl.cap |->
                              IF i > sl.len /\ i <= sl.len + Len(xs)
                                THEN xs[i - sl.len] ELSE @[i]]],
          slice |-> [sl EXCEPT !.len = sl.len + Len(xs)]]
    ELSE LET cap == GrowCap(sl.cap, sl.len + Len(xs))
         IN [heap |-> Append(h, Padded(Elems(h, sl) \o xs, cap, zero)),
             slice |-> [arr |-> Len(h) + 1, len |-> sl.len + Len(xs),
                        cap |-> cap]]

\* ---------------------------------------------------------------- update.go
NoError == "nil"
ErrNotStruct == "update was not a struct"
ErrNoFields == "no fields to update"

\* Set's `if value.IsZero() { continue }`.
SkipZero(kind, v) == IsZero(kind, v)

\* recurseFields of Set: the fields i, i+1, ... of struct type t, which is
\* reached from the record x by the index sequence `index`. st is [set, vals,
\* panic]. The index sequence handed to FieldByIndex is read at once, so
\* whether append shares its backing array cannot be observed here.
RECURSIVE SetFields(_, _, _, _, _)
SetFields(x, t, index, i, st) ==
  IF i > Len(t) \/ st.panic THEN st
  ELSE
    LET field == t[i]
        path == Append(index, i)
    IN IF field.anonymous
         THEN SetFields(x, t, index, i + 1,
                        SetFields(x, field.fields, path, 1, st))
       ELSE IF ~field.tag.ok
         THEN SetFields(x, t, index, i + 1, st)
       ELSE IF parseTag(field.tag.value, <<"update">>).ignore
         THEN SetFields(x, t, index, i + 1, st)
       ELSE IF SkipZero(field.kind, FieldByIndex(x, path))
         THEN SetFields(x, t, index, i + 1, st)
       ELSE IF InterfacePanics(field)
         THEN [st EXCEPT !.panic = TRUE]
       ELSE SetFields(x, t, index, i + 1,
              [st EXCEPT
                 !.set = Append(@, parseTag(field.tag.value, <<"update">>).name
                                     \o <<" = ", "?">>),
                 !.vals = Append(@, FieldByIndex(x, path))])

\* UpdatePendingSet.Set(update), but for the backing array of args: the
\* outcome ("ok", "err" or "panic") with the fields of UpdatePendingWhere.
SetResult(u, x) ==
  IF KindOf(x) # "struct"
    THEN [out |-> "err", table |-> "", set |-> <<>>, vals |-> <<>>,
          err |-> ErrNotStruct]
  ELSE
    LET st == SetFields(x, TypeFields(x.type), <<>>, 1,
                        [set |-> <<>>, vals |-> <<>>, panic |-> FALSE])
    IN IF st.panic
         THEN [out |-> "panic", table |-> "", set |-> <<>>, vals |-> <<>>,
               err |-> NoError]
       ELSE IF Len(st.set) < 1
         THEN [out |-> "err", table |-> "", set |-> <<>>, vals |-> <<>>,
               err |-> ErrNoFields]
       ELSE [out |-> "ok", table |-> u.table, set |-> Join(st.set, ", "),
             vals |-> st.vals, err |-> NoError]

\* PendingUpdate.Statement()
Statement(p) ==
  <<"UPDATE ", p.table, " SET ">> \o p.set \o <<" WHERE ">> \o p.where

\* PendingUpdate.Args()
Args(h, p) == Elems(h, p.args)

\* ------------------------------------------- update(table, record, where...)
\* The columns of record x for the update context as the specification
\* resolves them (4.1, 4.3): annotated, not excluded for update, not zero and,
\* with visibleOnly, externally visible; embedded fields expanded in place.
RECURSIVE UpdateColumns(_, _, _, _, _)
UpdateColumns(x, t, index, i, visibleOnly) ==
  IF i > Len(t) THEN <<>>
  ELSE
    LET field == t[i]
        path == Append(index, i)
        here ==
          IF field.anonymous
            THEN UpdateColumns(x, field.fields, path, 1, visibleOnly)
          ELSE IF field.tag.ok /\ (visibleOnly => field.exported)
                  /\ ~parseTag(field.tag.value, <<"update">>).ignore
                  /\ ~IsZero(field.kind, FieldByIndex(x, path))
            THEN <<[name |-> parseTag(field.tag.value, <<"update">>).name,
                    value |-> FieldByIndex(x, path)]>>
          ELSE <<>>
    IN here \o UpdateColumns(x, t, index, i + 1, visibleOnly)

\* update(table, record, where, args...), the function the tests of
\* update_test.go call, as the specification describes it (4.3): the SET
\* placeholders are numbered 1..k, the WHERE fragment is reindexed by k, the
\* arguments are the SET arguments followed by the WHERE arguments.
update(table, x, where, args) ==
  IF KindOf(x) # "struct"
    THEN [err |-> ErrNotStruct, statement |-> <<>>, args |-> <<>>]
  ELSE
    LET cols == UpdateColumns(x, TypeFields(x.type), <<>>, 1, TRUE)
        k == Len(cols)
        set == [i \in 1..k |-> cols[i].name \o <<" = ", DOLLAR>> \o Itoa(i)]
    IN IF k < 1
         THEN [err |-> ErrNoFields, statement |-> <<>>, args |-> <<>>]
       ELSE [err |-> NoError,
             statement |-> <<"UPDATE ", table, " SET ">> \o Join(set, ", ")
                             \o <<" WHERE ">> \o reindex(where, k),
             args |-> [i \in 1..k |-> cols[i].value] \o args]

\* ---------------------------------------------------------------- insert.go
ErrNotStructs == "values must be struct or []struct"
ErrNoValues == "no values given"
ErrTypeMismatch == "type mismatch"
ErrNoColumns == "no columns available for insert"

\* v.Index(i).Kind(): an element of a []T has the kind of T, an element of a
\* []interface{} has the kind Interface whatever it holds.
IndexKind(values, i) ==
  IF values.elem = "interface" THEN "interface" ELSE KindOf(values.elems[i])

\* recurseFields of insert, from field i of t on: st holds the heap of the
\* index arrays, columns and columnIdx. append(index, field.Index...) writes
\* into the backing array of index when its capacity allows.
RECURSIVE InsertFields(_, _, _, _)
InsertFields(t, index, i, st) ==
  IF i > Len(t) THEN st
  ELSE
    LET field == t[i]
        a == AppendAll(st.heap, index, <<i>>, 0)
    IN IF field.anonymous
         THEN InsertFields(t, index, i + 1,
                InsertFields(field.fields, a.slice, 1,
                             [st EXCEPT !.heap = a.heap]))
       ELSE IF ~field.tag.ok
         THEN InsertFields(t, index, i + 1, st)
       ELSE IF parseTag(field.tag.value, <<"insert">>).ignore
         THEN InsertFields(t, index, i + 1, st)
       ELSE InsertFields(t, index, i + 1,
              [heap |-> a.heap,
               columns |-> Append(st.columns,
                                  parseTag(field.tag.value, <<"insert">>).name),
               columnIdx |-> Append(st.columnIdx, a.slice)])

\* repeatWithIndex(prefix, separator, n), from index i on with v built so far
\* (n is a length here, never negative).
RECURSIVE RepeatWithIndexLoop(_, _, _, _, _, _)
RepeatWithIndexLoop(prefix, separator, n, i, v, ssep) ==
  IF i > n THEN v
  ELSE RepeatWithIndexLoop(prefix, separator, n, i + 1,
                           v \o ssep \o <<prefix>> \o Itoa(i), <<separator>>)

repeatWithIndex(prefix, separator, n) ==
  RepeatWithIndexLoop(prefix, separator, n, 1, <<>>, <<>>)

\* repeat(s, sep, n)
RECURSIVE repeat(_, _, _)
repeat(str, sep, n) ==
  IF n = 0 THEN <<>>
  ELSE IF n = 1 THEN str
  ELSE repeat(str, sep, n - 1) \o <<sep>> \o str

InsertError(e) == [out |-> "err", err |-> e, statement |-> <<>>, args |-> <<>>]

\* insert(table, values): the outcome ("ok", "err" or "panic") with the
\* error or the fields of preInsert.
insert(table, values) ==
  IF values.kind \notin {"struct", "slice"} THEN InsertError(ErrNotStructs)
  ELSE IF values.kind = "slice"
          /\ \E i \in 1..Len(values.elems) : IndexKind(values, i) # "struct"
    THEN InsertError(ErrNotStructs)
  ELSE
    LET vs == values.elems
    IN IF Len(vs) < 1 THEN InsertError(ErrNoValues)
       ELSE IF \E i \in 1..Len(vs) : vs[1].type # vs[i].type
         THEN InsertError(ErrTypeMismatch)
       ELSE
         LET t == TypeFields(vs[1].type)
             st == InsertFields(t, NilSlice, 1,
                     [heap |-> <<>>, columns |-> <<>>, columnIdx |-> <<>>])
             c == Len(st.columns)
             path(j) == Elems(st.heap, st.columnIdx[j])
         IN IF c < 1 THEN InsertError(ErrNoColumns)
            ELSE IF \E j \in 1..c : InterfacePanics(FieldAt(t, path(j)))
              THEN [out |-> "panic", err |-> NoError, statement |-> <<>>,
                    args |-> <<>>]
            ELSE
              LET argset == [x \in 1..(c * Len(vs)) |->
                               FieldByIndex(vs[((x - 1) \div c) + 1],
                                            path(((x - 1) % c) + 1))]
                  placeholders == repeatWithIndex(DOLLAR, ", ", c)
                  value == <<"(">> \o placeholders \o <<")">>
                  valueList == repeat(value, ", ", Len(argset) \div c)
                  columnList == Join(st.columns, ", ")
              IN [out |-> "ok", err |-> NoError,
                  statement |-> <<"insert into ", table, "(">> \o columnList
                                  \o <<")", " values">> \o valueList,
                  args |-> argset]

\* ------------------------------------------------------------------ scan.go
ErrQuery == "query error"
ErrNotPointer == "dest is not a pointer type"
ErrNoField == "no field for column"
ErrColumnCount == "can't scan columns"
ErrScan == "rows.Scan error"
ErrCursor == "rows.Err error"
ErrNoRows == "sql: no rows in result set"

\* struct { A string `sql:"a/update/insert"`;
\*          Group []string `sql:"gr/update/insert"` }
Type_agg ==
  <<Leaf("A", TRUE, Tag(<<"a", "/", "update", "/", "insert">>), "string"),
    Leaf("Group", TRUE, Tag(<<"gr", "/", "update", "/", "insert">>), "slice")>>

\* struct { A string `sql:"a"`; P *string `sql:"p"`;
\*          X string `sql:"x/Select"`; U string }
Type_rec ==
  <<Leaf("A", TRUE, Tag(<<"a">>), "string"),
    Leaf("P", TRUE, Tag(<<"p">>), "ptr"),
    Leaf("X", TRUE, Tag(<<"x", "/", "Select">>), "string"),
    Leaf("U", TRUE, NoTag, "string")>>

\* type Inner struct { X string `sql:"x"` }
\* struct { Inner; A string `sql:"a"`; B string `sql:"a"`; Y string `sql:"x"` }
Type_dup ==
  <<Embedded("Inner", TRUE, <<Leaf("X", TRUE, Tag(<<"x">>), "string")>>),
    Leaf("A", TRUE, Tag(<<"a">>), "string"),
    Leaf("B", TRUE, Tag(<<"a">>), "string"),
    Leaf("Y", TRUE, Tag(<<"x">>), "string")>>

ScanStructTypes == {"agg", "rec", "dup"}
BaseTypes == {"string"}

\* reflect.Type of the element type of a destination, by name.
ScanTypeFields(tn) ==
  CASE tn = "agg" -> Type_agg
    [] tn = "rec" -> Type_rec
    [] tn = "dup" -> Type_dup
    [] tn \in StructTypes -> TypeFields(tn)
    [] OTHER -> <<>>

\* t.Kind() == reflect.Struct
IsStructType(tn) == tn \in ScanStructTypes \cup StructTypes

\* The leaf fields of a struct type, depth first, each with the depth of
\* embedding at which FieldByNameFunc finds it.
RECURSIVE Flat(_, _)
Flat(t, depth) ==
  IF t = <<>> THEN <<>>
  ELSE (IF Head(t).anonymous THEN Flat(Head(t).fields, depth + 1)
        ELSE <<[field |-> Head(t), depth |-> depth]>>)
         \o Flat(Tail(t), depth)

\* A value of an element type is the sequence of the values of its leaf
\* fields, each a sequence: the elements of a slice field, the one value of
\* any other field. A value of a base type has one such field.
ZeroField(kind) ==
  IF kind = "slice" THEN <<>> ELSE IF kind = "ptr" THEN <<"nil">>
  ELSE <<"zero">>

\* reflect.New(t).Elem()
ZeroElem(tn) ==
  IF IsStructType(tn)
    THEN LET fl == Flat(ScanTypeFields(tn), 0)
         IN [i \in 1..Len(fl) |-> ZeroField(fl[i].field.kind)]
    ELSE <<<<"zero">>>>

\* The predicate Scan hands to FieldByNameFunc: the field has an sql tag
\* whose name is the column and which does not exclude select.
MatchesColumn(field, col) ==
  /\ field.tag.ok
  /\ parseTag(field.tag.value, <<"select">>).name = <<col>>
  /\ ~parseTag(field.tag.value, <<"select">>).ignore

\* A mutant of FieldByNameFunc: the first matching field in declaration
\* order, whatever its depth.
FieldByNameFuncFirst(fl, col) ==
  LET m == {i \in 1..Len(fl) : MatchesColumn(fl[i].field, col)}
  IN IF m # {} THEN CHOOSE i \in m : \A j \in m : i <= j ELSE 0

\* t.FieldByNameFunc(...): the matching field of least depth, none (0) when
\* no field matches or several of that depth do. The field names of the
\* types of this model are unique, so t.FieldByName(s) is the field visited.
FieldByNameFunc(fl, col) ==
  LET m == {i \in 1..Len(fl) : MatchesColumn(fl[i].field, col)}
      least == {i \in m : \A j \in m : fl[i].depth <= fl[j].depth}
  IN IF Cardinality(least) = 1 THEN CHOOSE i \in least : TRUE ELSE 0

\* What rows.Scan stores through a receiver of the given kind for a column
\* value: NULL gives nil through a pointer and cannot be stored otherwise.
ScanFails(kind, value) == value = "NULL" /\ kind \notin {"ptr", "slice"}
Received(kind, value) ==
  IF kind = "ptr" THEN (IF value = "NULL" THEN <<"nil">> ELSE <<"&" \o value>>)
  ELSE <<value>>

\* rows.Scan(receivers...) into the key fields of target: the columns are
\* stored in order up to the first that fails.
RECURSIVE StoreKeys(_, _, _, _, _)
StoreKeys(target, fl, fields, row, i) ==
  IF i > Len(row) THEN target
  ELSE LET kind == fl[fields[i]].field.kind
       IN IF ScanFails(kind, row[i]) THEN target
          ELSE StoreKeys(IF kind = "slice" THEN target
                         ELSE [target EXCEPT ![fields[i]] =
                                 Received(kind, row[i])],
                         fl, fields, row, i + 1)

\* The aggregation into one element: every non-NULL holder is appended to
\* its slice field.
RECURSIVE Aggregate(_, _, _, _, _)
Aggregate(elem, fl, fields, row, i) ==
  IF i > Len(row) THEN elem
  ELSE Aggregate(IF fl[fields[i]].field.kind = "slice" /\ row[i] # "NULL"
                   THEN [elem EXCEPT ![fields[i]] = Append(@, row[i])]
                 ELSE elem,
                 fl, fields, row, i + 1)

\* A mutant of AggregateLoop: the loop runs also when no column goes to a
\* slice field.
RECURSIVE AggregateLoopUnguarded(_, _, _, _, _, _, _)
AggregateLoopUnguarded(v, i, target, fl, fields, row, aggregated) ==
  IF i > Len(v) THEN [v |-> v, aggregated |-> aggregated]
  ELSE IF \A c \in 1..Len(fields) :
            fl[fields[c]].field.kind # "slice"
              => v[i][fields[c]] = target[fields[c]]
    THEN AggregateLoopUnguarded([v EXCEPT ![i] = Aggregate(@, fl, fields, row, 1)],
                                i + 1, target, fl, fields, row, TRUE)
    ELSE AggregateLoopUnguarded(v, i + 1, target, fl, fields, row, aggregated)

\* The loop over the elements already in v (scan.go 135-156), from element i
\* on, which runs while len(aggregates) > 0: every element whose key fields
\* equal those of target takes the holders of this row; the loop does not
\* stop at the first.
RECURSIVE AggregateLoop(_, _, _, _, _, _, _)
AggregateLoop(v, i, target, fl, fields, row, aggregated) ==
  IF i > Len(v) \/ ~(\E c \in 1..Len(fields) :
                       fl[fields[c]].field.kind = "slice")
    THEN [v |-> v, aggregated |-> aggregated]
  ELSE IF \A c \in 1..Len(fields) :
            fl[fields[c]].field.kind # "slice"
              => v[i][fields[c]] = target[fields[c]]
    THEN AggregateLoop([v EXCEPT ![i] = Aggregate(@, fl, fields, row, 1)],
                       i + 1, target, fl, fields, row, TRUE)
    ELSE AggregateLoop(v, i + 1, target, fl, fields, row, aggregated)

\* A mutant of AppendRow: the new element is put in front.
AppendRowInFront(v, elem) == <<elem>> \o v

\* v.Set(reflect.Append(v, target))
AppendRow(v, elem) == Append(v, elem)

RowError(e, v) == [out |-> "err", err |-> e, v |-> v]

\* One iteration of the loop of Scan (scan.go 67-174) for row, with v the
\* elements of the destination: the outcome ("ok", "err" or "panic") and the
\* elements afterwards.
ScanRowResult(kind, tn, v, columns, row) ==
  LET target == IF kind = "slice" THEN ZeroElem(tn) ELSE v[1]
      fl == Flat(ScanTypeFields(tn), 0)
      fields == [i \in 1..Len(columns) |-> FieldByNameFunc(fl, columns[i])]
      bad(i) == fields[i] = 0
                  \/ (fl[fields[i]].field.kind # "slice"
                        /\ InterfacePanics(fl[fields[i]].field))
  IN IF ~IsStructType(tn)
       THEN IF Len(columns) # 1 THEN RowError(ErrColumnCount, v)
            ELSE IF ScanFails(tn, row[1]) THEN RowError(ErrScan, v)
            ELSE [out |-> "ok", err |-> NoError,
                  v |-> IF kind = "slice" THEN AppendRow(v, <<<<row[1]>>>>)
                        ELSE <<<<<<row[1]>>>>>>]
     ELSE IF \E i \in 1..Len(columns) : bad(i)
       THEN LET i == CHOOSE i \in 1..Len(columns) :
                       bad(i) /\ \A j \in 1..(i - 1) : ~bad(j)
            IN IF fields[i] = 0 THEN RowError(ErrNoField, v)
               ELSE [out |-> "panic", err |-> NoError, v |-> v]
     ELSE
       LET stored == StoreKeys(target, fl, fields, row, 1)
           failed == \E i \in 1..Len(row) :
                       ScanFails(fl[fields[i]].field.kind, row[i])
           loop == AggregateLoop(v, 1, stored, fl, fields, row, FALSE)
       IN IF failed
            THEN RowError(ErrScan, IF kind = "slice" THEN v ELSE <<stored>>)
          ELSE IF kind # "slice"
            THEN [out |-> "ok", err |-> NoError, v |-> <<stored>>]
          ELSE IF loop.aggregated
            THEN [out |-> "ok", err |-> NoError, v |-> loop.v]
          ELSE [out |-> "ok", err |-> NoError,
                v |-> AppendRow(v, Aggregate(stored, fl, fields, row, 1))]

\* ------------------------------------------------------------------ state
VARIABLES
  s,          \* reindex: the fragment
  base,       \* reindex: the offset
  result,     \* reindex: the returned fragment
  called,     \* reindex: whether reindex has returned
  upd,        \* Update: the record handed to Set
  ups,        \* Update: the UpdatePendingSet returned by Update(table)
  u,          \* Update: the UpdatePendingWhere returned by Set
  heap,       \* Update: the backing arrays of the args slices
  pending,    \* Update: the PendingUpdates returned by Where, in call order
  whereCalls, \* Update: the (where, args) of each call of Where
  execs,      \* Update: the calls of PendingUpdate.Exec and what db.Exec got
  pre,        \* update(): the preUpdate or error it returned
  updCall,    \* update(): the (where, args) it was called with
  values,     \* Insert: the values handed over
  ins,        \* Insert: what insert returned
  dbExec,     \* Insert: the calls of db.Exec
  tag,        \* parseTag: the annotation
  context,    \* parseTag: the context
  parsed,     \* parseTag: what it returned
  dest,       \* Scan: the destination
  dest0,      \* Scan: the destination as it was when Scan was called
  cur,        \* Scan: the cursor db.Query returns and the calls made on it
  sc          \* Scan: its position, atleastOneRow and what it returned

reindexVars == <<s, base, result, called>>
updateVars == <<upd, ups, u, heap, pending, whereCalls, execs, pre, updCall>>
insertVars == <<values, ins, dbExec>>
tagVars == <<tag, context, parsed>>
scanVars == <<dest, dest0, cur, sc>>
vars == <<s, base, result, called, upd, ups, u, heap, pending, whereCalls,
          execs, pre, updCall, values, ins, dbExec, tag, context, parsed,
          dest, dest0, cur, sc>>

\* Bounds of the update model: calls of Where on one UpdatePendingWhere, and
\* arguments of one call.
MaxWhere == 2
MaxWhereArgs == 1

WhereFragments == {<<"a = ", DOLLAR, "1">>, <<"rowid = 1">>}
WhereArgValues == {"w1", "w2"}
WhereArgs ==
  UNION {[1..n -> WhereArgValues] : n \in 0..MaxWhereArgs}

NoPending == [out |-> "none", table |-> "", set |-> <<>>, args |-> NilSlice,
              err |-> NoError]
NoPre == [err |-> "none", statement |-> <<>>, args |-> <<>>]

\* Bound of the insert model: records of one call.
MaxRecords == 2

\* The structs with no zero field.
FilledStructs ==
  {x \in Structs :
     \A i \in 1..Len(x.val) : x.val[i] \notin {"zero", "nil", "&zero"}}

\* The values a caller may hand to Insert: a struct, a []T of structs of one
\* type, a []interface{} holding structs of any types, or an int.
InsertValues ==
  {[kind |-> "struct", elem |-> "struct", elems |-> <<x>>] : x \in Structs}
  \cup {[kind |-> "slice", elem |-> "struct", elems |-> xs] :
          xs \in UNION {[1..n -> StructsOf(tn)] :
                          n \in 0..MaxRecords, tn \in StructTypes}}
  \cup {[kind |-> "slice", elem |-> "interface", elems |-> xs] :
          xs \in UNION {[1..n -> FilledStructs] : n \in 0..MaxRecords}}
  \cup {[kind |-> "int", elem |-> "int", elems |-> <<>>]}

NoInsert == [out |-> "none", err |-> NoError, statement |-> <<>>, args |-> <<>>]

InsertIdle ==
  /\ values = [kind |-> "int", elem |-> "int", elems |-> <<>>]
  /\ ins = NoInsert
  /\ dbExec = <<>>

\* Bound of the parseTag model: contexts listed in one annotation.
MaxContexts == 2

\* The annotations: a name ("a", "-" or none) and a list of words, each
\* after a "/".
TagNames == {<<"a">>, <<"-">>, <<>>}
TagWords == {"insert", "Insert", "UPDATE", "select", "x"}
RECURSIVE Slashed(_)
Slashed(ws) == IF ws = <<>> THEN <<>> ELSE <<"/", Head(ws)>> \o Slashed(Tail(ws))
Annotations ==
  {n \o Slashed(ws) :
     n \in TagNames, ws \in UNION {[1..k -> TagWords] : k \in 0..MaxContexts}}
Contexts == {"insert", "update", "select"}

NoParsed == [called |-> FALSE, name |-> <<>>, ignore |-> FALSE]
TagIdle == tag = <<>> /\ context = "" /\ parsed = NoParsed

\* Bound of the scan model: rows of one cursor.
MaxRows == 3

\* The column values of a row.
ScanValues == {"v1", "v2", "NULL"}

\* The column lists a query returns for a destination of element type tn.
ColumnLists(tn) ==
  CASE tn = "agg" -> {<<"a", "gr">>, <<"a">>, <<"a", "zz">>}
    [] tn = "rec" -> {<<"a", "p">>, <<"x">>, <<"u">>}
    [] tn = "unexp" -> {<<"y">>, <<"a">>}
    [] tn = "dup" -> {<<"a">>, <<"x">>}
    [] OTHER -> {<<"a">>, <<"a", "gr">>}

\* An element that was in the destination before the call.
OldField(kind) ==
  IF kind = "slice" THEN <<"old">> ELSE IF kind = "ptr" THEN <<"&old">>
  ELSE <<"old">>
OldElem(tn) ==
  IF IsStructType(tn)
    THEN LET fl == Flat(ScanTypeFields(tn), 0)
         IN [i \in 1..Len(fl) |->
               IF i = 1 THEN <<"v1">> ELSE OldField(fl[i].field.kind)]
    ELSE <<<<"old">>>>

\* The destinations handed to Scan: a pointer or not, to a slice (empty or
\* holding one element) or to a scalar (zero or initialized).
ScanDestTypes == {"agg", "rec", "unexp", "dup", "string"}
InitialValues(k, tn) ==
  IF k = "slice" THEN {<<>>, <<OldElem(tn)>>}
  ELSE {<<ZeroElem(tn)>>, <<OldElem(tn)>>}
ScanDests ==
  UNION {{[ptr |-> p, kind |-> k, type |-> tn, val |-> v] :
            p \in BOOLEAN, v \in InitialValues(k, tn)}
         : k \in {"slice", "scalar"}, tn \in ScanDestTypes}

\* What db.Query is about to return: an error, or a cursor with its column
\* names and rows, which ends with or without an error.
Cursor(columns, rows, failing, queryErr) ==
  [state |-> "ready", columns |-> columns, rows |-> rows,
   failing |-> failing, queryErr |-> queryErr,
   pos |-> 0, err |-> FALSE, nexts |-> 0, closes |-> 0]
RowsOf(width) ==
  UNION {[1..n -> [1..width -> ScanValues]] : n \in 0..MaxRows}
Cursors(tn) ==
  UNION {{Cursor(c, rows, f, FALSE) : f \in BOOLEAN, rows \in RowsOf(Len(c))}
           \cup {Cursor(c, <<>>, FALSE, TRUE)}
         : c \in ColumnLists(tn)}

NoCursor == [Cursor(<<>>, <<>>, FALSE, FALSE) EXCEPT !.state = "none"]
NoScan == [pc |-> "start", out |-> "none", err |-> NoError,
           atleastOneRow |-> FALSE]
NoDest == [ptr |-> FALSE, kind |-> "scalar", type |-> "string",
           val |-> <<<<<<"zero">>>>>>]
ScanIdle ==
  /\ dest = NoDest
  /\ dest0 = NoDest
  /\ cur = NoCursor
  /\ sc = NoScan

ReindexIdle == s = <<>> /\ base = 0 /\ result = <<>> /\ called = FALSE
UpdateIdle ==
  /\ upd = NonStruct
  /\ ups = [table |-> "T"]
  /\ u = NoPending
  /\ heap = <<>>
  /\ pending = <<>>
  /\ whereCalls = <<>>
  /\ execs = <<>>
  /\ pre = NoPre
  /\ updCall = [where |-> <<>>, args |-> <<>>]

\* --------------------------------------------------- specification: reindex
InitReindex ==
  /\ s \in Fragments
  /\ base \in 0..MaxBase
  /\ result = <<>>
  /\ called = FALSE
  /\ UpdateIdle
  /\ InsertIdle
  /\ TagIdle
  /\ ScanIdle

CallReindex ==
  /\ ~called
  /\ result' = reindex(s, base)
  /\ called' = TRUE
  /\ UNCHANGED <<s, base>>
  /\ UNCHANGED <<updateVars, insertVars, tagVars, scanVars>>

NextReindex == CallReindex

SpecReindex == InitReindex /\ [][NextReindex]_vars

\* ---------------------------------------------------- specification: update
\* Update("T") has returned; the caller holds a record to update with.
InitUpdate ==
  /\ upd \in Structs \cup {NonStruct}
  /\ ups = [table |-> "T"]
  /\ u = NoPending
  /\ heap = <<>>
  /\ pending = <<>>
  /\ whereCalls = <<>>
  /\ execs = <<>>
  /\ pre = NoPre
  /\ updCall = [where |-> <<>>, args |-> <<>>]
  /\ ReindexIdle
  /\ InsertIdle
  /\ TagIdle
  /\ ScanIdle

\* u := ups.Set(upd). vals grows by one append per field, which leaves args
\* with the capacity CapAfterAppends(len).
Set ==
  /\ u.out = "none"
  /\ LET r == SetResult(ups, upd)
         k == Len(r.vals)
     IN /\ heap' = IF k = 0 THEN heap
                   ELSE Append(heap, Padded(r.vals, CapAfterAppends(k), "nil"))
        /\ u' = [out |-> r.out, table |-> r.table, set |-> r.set,
                 args |-> IF k = 0 THEN NilSlice
                          ELSE [arr |-> Len(heap) + 1, len |-> k,
                                cap |-> CapAfterAppends(k)],
                 err |-> r.err]
  /\ UNCHANGED <<upd, ups, pending, whereCalls, execs, pre, updCall>>
  /\ UNCHANGED <<reindexVars, insertVars, tagVars, scanVars>>

\* p := u.Where(where, args...)
Where(where, args) ==
  /\ u.out \in {"ok", "err"}
  /\ Len(pending) < MaxWhere
  /\ LET a == AppendAll(heap, u.args, args, "nil")
     IN /\ heap' = a.heap
        /\ pending' = Append(pending,
                        [table |-> u.table, set |-> u.set, args |-> a.slice,
                         err |-> u.err, where |-> where])
  /\ whereCalls' = Append(whereCalls, [where |-> where, args |-> args])
  /\ UNCHANGED <<upd, ups, u, execs, pre, updCall>>
  /\ UNCHANGED <<reindexVars, insertVars, tagVars, scanVars>>

\* A mutant of Exec: db.Exec is called whether Set failed or not.
ExecIgnoringError(i) ==
  /\ i \in 1..Len(pending)
  /\ \A j \in 1..Len(execs) : execs[j].p # i
  /\ execs' = Append(execs,
       [p |-> i, err |-> NoError, dbCalled |-> TRUE,
        statement |-> Statement(pending[i]),
        args |-> Args(heap, pending[i])])
  /\ UNCHANGED <<upd, ups, u, heap, pending, whereCalls, pre, updCall>>
  /\ UNCHANGED <<reindexVars, insertVars, tagVars, scanVars>>

\* pending[i].Exec(db): the error of Set if there is one, db.Exec otherwise.
Exec(i) ==
  /\ i \in 1..Len(pending)
  /\ \A j \in 1..Len(execs) : execs[j].p # i
  /\ execs' = Append(execs,
       IF pending[i].err # NoError
         THEN [p |-> i, err |-> pending[i].err, dbCalled |-> FALSE,
               statement |-> <<>>, args |-> <<>>]
         ELSE [p |-> i, err |-> NoError, dbCalled |-> TRUE,
               statement |-> Statement(pending[i]),
               args |-> Args(heap, pending[i])])
  /\ UNCHANGED <<upd, ups, u, heap, pending, whereCalls, pre, updCall>>
  /\ UNCHANGED <<reindexVars, insertVars, tagVars, scanVars>>

\* pre, err := update("T", upd, where, args...)
CallUpdate(where, args) ==
  /\ pre = NoPre
  /\ pre' = update("T", upd, where, args)
  /\ updCall' = [where |-> where, args |-> args]
  /\ UNCHANGED <<upd, ups, u, heap, pending, whereCalls, execs>>
  /\ UNCHANGED <<reindexVars, insertVars, tagVars, scanVars>>

NextUpdate ==
  \/ Set
  \/ \E w \in WhereFragments, a \in WhereArgs : Where(w, a)
  \/ \E i \in 1..MaxWhere : Exec(i)

SpecUpdate == InitUpdate /\ [][NextUpdate]_vars

\* ------------------------------------------------ specification: update()
NextUpdateFn == \E w \in WhereFragments, a \in WhereArgs : CallUpdate(w, a)

SpecUpdateFn == InitUpdate /\ [][NextUpdateFn]_vars

\* ---------------------------------------------------- specification: insert
InitInsert ==
  /\ values \in InsertValues
  /\ ins = NoInsert
  /\ dbExec = <<>>
  /\ ReindexIdle
  /\ UpdateIdle
  /\ TagIdle
  /\ ScanIdle

\* Insert(db, "T", values): db.Exec is called when insert returns no error.
Insert ==
  /\ ins.out = "none"
  /\ LET i == insert("T", values)
     IN /\ ins' = i
        /\ dbExec' = IF i.out = "ok"
                       THEN Append(dbExec, [statement |-> i.statement,
                                            args |-> i.args])
                     ELSE dbExec
  /\ UNCHANGED values
  /\ UNCHANGED <<reindexVars, updateVars, tagVars, scanVars>>

NextInsert == Insert

SpecInsert == InitInsert /\ [][NextInsert]_vars

\* -------------------------------------------------- specification: parseTag
InitParseTag ==
  /\ tag \in Annotations
  /\ context \in Contexts
  /\ parsed = NoParsed
  /\ ReindexIdle
  /\ UpdateIdle
  /\ InsertIdle
  /\ ScanIdle

\* name, ignore := parseTag(tag, context)
CallParseTag ==
  /\ ~parsed.called
  /\ LET r == parseTag(tag, <<context>>)
     IN parsed' = [called |-> TRUE, name |-> r.name, ignore |-> r.ignore]
  /\ UNCHANGED <<tag, context>>
  /\ UNCHANGED <<reindexVars, updateVars, insertVars, scanVars>>

NextParseTag == CallParseTag

SpecParseTag == InitParseTag /\ [][NextParseTag]_vars

\* ------------------------------------------------------ specification: Scan
\* Scan(dest, db, query) is about to be called. A destination that is no
\* pointer is rejected before any row is read, whatever the rows are, so it
\* is paired with cursors of at most one row.
InitScan ==
  /\ dest \in ScanDests
  /\ dest0 = dest
  /\ cur \in Cursors(dest.type)
  /\ (~dest.ptr => Len(cur.rows) <= 1)
  /\ sc = NoScan
  /\ ReindexIdle
  /\ UpdateIdle
  /\ InsertIdle
  /\ TagIdle

\* A mutant of Return: the cursor is left open.
ReturnLeavingOpen(c, out, e) ==
  /\ sc' = [sc EXCEPT !.pc = "done", !.out = out, !.err = e]
  /\ cur' = c

\* Scan returns or panics with the cursor as it is in c: the deferred
\* rows.Close() runs.
Return(c, out, e) ==
  /\ sc' = [sc EXCEPT !.pc = "done", !.out = out, !.err = e]
  /\ cur' = [c EXCEPT !.state = "closed", !.closes = @ + 1]

\* Scan up to its loop (scan.go 40-64): db.Query, the deferred Close, the
\* pointer test. rows.Columns() cannot fail on a cursor that is open.
ScanOpen ==
  /\ sc.pc = "start"
  /\ cur.state = "ready"
  /\ IF cur.queryErr
       THEN /\ sc' = [sc EXCEPT !.pc = "done", !.out = "err", !.err = ErrQuery]
            /\ cur' = [cur EXCEPT !.state = "failed"]
     ELSE IF ~dest.ptr
       THEN Return([cur EXCEPT !.state = "open"], "err", ErrNotPointer)
     ELSE /\ sc' = [sc EXCEPT !.pc = "loop"]
          /\ cur' = [cur EXCEPT !.state = "open"]
  /\ UNCHANGED <<dest, dest0>>
  /\ UNCHANGED <<reindexVars, updateVars, insertVars, tagVars>>

\* rows.Next() returns true and the body of the loop runs (scan.go 66-175).
ScanRow ==
  /\ sc.pc = "loop"
  /\ cur.pos < Len(cur.rows)
  /\ LET r == ScanRowResult(dest.kind, dest.type, dest.val, cur.columns,
                            cur.rows[cur.pos + 1])
         next == [cur EXCEPT !.pos = @ + 1, !.nexts = @ + 1]
     IN /\ dest' = [dest EXCEPT !.val = r.v]
        /\ IF r.out # "ok" THEN Return(next, r.out, r.err)
           ELSE IF dest.kind = "slice"
             THEN sc' = sc /\ cur' = next
           ELSE /\ sc' = [sc EXCEPT !.pc = "after", !.atleastOneRow = TRUE]
                /\ cur' = next
  /\ UNCHANGED dest0
  /\ UNCHANGED <<reindexVars, updateVars, insertVars, tagVars>>

\* rows.Next() returns false: the rows are exhausted or the cursor failed.
ScanEnd ==
  /\ sc.pc = "loop"
  /\ cur.pos = Len(cur.rows)
  /\ cur' = [cur EXCEPT !.nexts = @ + 1, !.err = cur.failing]
  /\ sc' = [sc EXCEPT !.pc = "after"]
  /\ UNCHANGED <<dest, dest0>>
  /\ UNCHANGED <<reindexVars, updateVars, insertVars, tagVars>>

\* Scan after its loop (scan.go 177-187).
ScanReturn ==
  /\ sc.pc = "after"
  /\ IF cur.err THEN Return(cur, "err", ErrCursor)
     ELSE IF dest.kind # "slice" /\ ~sc.atleastOneRow
       THEN Return(cur, "err", ErrNoRows)
     ELSE Return(cur, "nil", NoError)
  /\ UNCHANGED <<dest, dest0>>
  /\ UNCHANGED <<reindexVars, updateVars, insertVars, tagVars>>

NextScan == ScanOpen \/ ScanRow \/ ScanEnd \/ ScanReturn

SpecScan == InitScan /\ [][NextScan]_vars

\* ------------------------------------------- specification: executions
\* A caller that inserts values with Insert(db, "T", values) and updates
\* with Update("T").Set(x).Where(...).Exec(db), x the first of the values.
\* Bound: records of one call of Insert here.
MaxExecRecords == 1

ExecValues == {v \in InsertValues : Len(v.elems) <= MaxExecRecords}

InitExec ==
  /\ values \in ExecValues
  /\ ins = NoInsert
  /\ dbExec = <<>>
  /\ upd = IF values.elems = <<>> THEN NonStruct ELSE values.elems[1]
  /\ ups = [table |-> "T"]
  /\ u = NoPending
  /\ heap = <<>>
  /\ pending = <<>>
  /\ whereCalls = <<>>
  /\ execs = <<>>
  /\ pre = NoPre
  /\ updCall = [where |-> <<>>, args |-> <<>>]
  /\ ReindexIdle
  /\ TagIdle
  /\ ScanIdle

NextExec ==
  \/ Insert
  \/ Set
  \/ \E w \in WhereFragments, a \in WhereArgs : Where(w, a)
  \/ \E i \in 1..MaxWhere : Exec(i)

SpecExec == InitExec /\ [][NextExec]_vars

\* ------------------------------------------- specification: round trip
\* The caller of the round trip: Insert(db, "T", records), then
\* var dest []T and Scan(&dest, db, "select <the inserted columns> from T").
\* The database is the collaborator behind db.Exec and db.Query: it binds
\* each marker $n of the statement to argument n and stores one row per
\* value tuple, in order.

\* The records of one call of the round trip: a []T of one to MaxRecords
\* structs of one type.
RoundTripValues ==
  {[kind |-> "slice", elem |-> "struct", elems |-> xs] :
     xs \in UNION {[1..n -> StructsOf(tn)] :
                     n \in 1..MaxRecords, tn \in StructTypes}}

\* The values that are no pointers.
PlainValues ==
  {"zero"} \cup
  UNION {{"v" \o Flat(TypeFields(tn), 0)[i].field.name :
            i \in 1..Len(Flat(TypeFields(tn), 0))} : tn \in StructTypes}

\* What the driver stores for an argument: NULL for a nil pointer, the value
\* pointed to for any other pointer, the value itself otherwise.
DriverValue(x) ==
  IF x = "nil" THEN "NULL"
  ELSE IF \E y \in PlainValues : x = "&" \o y
    THEN CHOOSE y \in PlainValues : x = "&" \o y
  ELSE x

\* The index after the digits of the marker that starts at i - 1.
RECURSIVE MarkerEnd(_, _)
MarkerEnd(text, i) ==
  IF i <= Len(text) /\ IsDigit(text[i]) THEN MarkerEnd(text, i + 1) ELSE i

\* The column names of "insert into T(c1, c2, ...) values...".
StatementColumns(text) ==
  LET k == CHOOSE i \in 1..Len(text) :
             text[i] = ")" /\ \A j \in 1..(i - 1) : text[j] # ")"
  IN SelectSeq(SubSeq(text, 4, k - 1), LAMBDA x : x # ", ")

\* The value tuples of the statement from index i on, each the numbers of
\* its markers.
RECURSIVE StatementTuples(_, _, _)
StatementTuples(text, i, tuples) ==
  IF i > Len(text) THEN tuples
  ELSE IF text[i] = "("
    THEN StatementTuples(text, i + 1, Append(tuples, <<>>))
  ELSE IF text[i] = DOLLAR
    THEN StatementTuples(text, MarkerEnd(text, i + 1),
           [tuples EXCEPT ![Len(tuples)] =
              Append(@, Atoi(SubSeq(text, i + 1, MarkerEnd(text, i + 1) - 1)))])
  ELSE StatementTuples(text, i + 1, tuples)

\* The rows of the table after db.Exec(statement, args...) on the empty
\* table: marker $n takes argument n.
TableRows(e) ==
  LET k == CHOOSE i \in 1..Len(e.statement) : e.statement[i] = " values"
      tuples == StatementTuples(e.statement, k + 1, <<>>)
  IN [r \in 1..Len(tuples) |->
        [c \in 1..Len(tuples[r]) |-> DriverValue(e.args[tuples[r][c]])]]

InitRoundTrip ==
  /\ values \in RoundTripValues
  /\ ins = NoInsert
  /\ dbExec = <<>>
  /\ ReindexIdle
  /\ UpdateIdle
  /\ TagIdle
  /\ ScanIdle

\* The caller after Insert has returned without error: an empty []T and the
\* query over the table.
SelectAll ==
  /\ ins.out = "ok"
  /\ cur.state = "none"
  /\ dest' = [ptr |-> TRUE, kind |-> "slice", type |-> values.elems[1].type,
              val |-> <<>>]
  /\ dest0' = dest'
  /\ cur' = Cursor(StatementColumns(dbExec[1].statement),
                   TableRows(dbExec[1]), FALSE, FALSE)
  /\ UNCHANGED sc
  /\ UNCHANGED <<reindexVars, updateVars, insertVars, tagVars>>

NextRoundTrip ==
  Insert \/ SelectAll \/ ScanOpen \/ ScanRow \/ ScanEnd \/ ScanReturn

SpecRoundTrip == InitRoundTrip /\ [][NextRoundTrip]_vars

\* ------------------------------------------------- claims on the reindexer
\* The quoting of a fragment as the specification defines it: the quote
\* state after reading c in quote state q.
QuoteNext(q, c) ==
  CASE q = "out" -> (IF c = SQ THEN "sq" ELSE IF c = DQ THEN "dq" ELSE "out")
    [] q = "dq" -> (IF c = BS THEN "dqe" ELSE IF c = DQ THEN "out" ELSE "dq")
    [] q = "dqe" -> "dq"
    [] q = "sq" -> (IF c = BS THEN "sqe" ELSE IF c = SQ THEN "out" ELSE "sq")
    [] q = "sqe" -> "sq"

\* The index after the run of digits that starts at i.
RECURSIVE DigitsEnd(_, _)
DigitsEnd(str, i) ==
  IF i <= Len(str) /\ IsDigit(str[i]) THEN DigitsEnd(str, i + 1) ELSE i

\* What the claim asks of reindex(str, k), read from index i in quote state q.
RECURSIVE Shifted(_, _, _, _)
Shifted(str, i, q, k) ==
  IF i > Len(str) THEN <<>>
  ELSE IF q = "out" /\ str[i] = DOLLAR
    THEN LET j == DigitsEnd(str, i + 1)
             d == SubSeq(str, i + 1, j - 1)
         IN <<DOLLAR>> \o (IF d = <<>> THEN <<>> ELSE Itoa(Atoi(d) + k))
              \o Shifted(str, j, "out", k)
    ELSE <<str[i]>> \o Shifted(str, i + 1, QuoteNext(q, str[i]), k)

\* The characters of str that belong to quoted literals, delimiters included.
RECURSIVE QuotedPart(_, _, _)
QuotedPart(str, i, q) ==
  IF i > Len(str) THEN <<>>
  ELSE (IF q # "out" \/ str[i] \in {SQ, DQ} THEN <<str[i]>> ELSE <<>>)
         \o QuotedPart(str, i + 1, QuoteNext(q, str[i]))

\* No marker of str, quoted or not, has a digit suffix with a leading zero.
NoLeadingZero(str) ==
  \A i \in 1..Len(str) :
    ~(str[i] = DOLLAR /\ i + 2 <= Len(str) /\ str[i + 1] = "0"
        /\ IsDigit(str[i + 2]))

\* C1: reindex(s, k) shifts every marker outside quoted literals by k, passes
\* a digit-less marker through and leaves every other character in place.
C1_ShiftsMarkersOutsideQuotes ==
  called => result = Shifted(s, 1, "out", base)

\* C2: reindex leaves the text of every quoted literal, its markers included,
\* unchanged; a backslash in a literal consumes exactly the next character.
C2_QuotedMarkersUntouched ==
  called => QuotedPart(result, 1, "out") = QuotedPart(s, 1, "out")

\* C3 as stated: reindex(s, 0) returns s, for every fragment whose markers
\* are '$' optionally followed by decimal digits.
C3_ZeroOffsetIsIdentity ==
  (called /\ base = 0) => result = s

\* C3 as amended: reindex(s, 0) returns s for every fragment none of whose
\* markers has a digit suffix with a superfluous leading zero.
C3_ZeroOffsetIsIdentityCanonical ==
  (called /\ base = 0 /\ NoLeadingZero(s)) => result = s

\* C3's case: offset 0, a multi-digit marker that ends the input.
C3_Witness ==
  called /\ base = 0 /\ s = <<"a", DOLLAR, "1", "0">> /\ result = s

\* The lexer is in its Default state when it reads the character at i.
DefaultAt(str, i, k) ==
  ReindexLoop([state |-> DEFAULT, result |-> <<>>, capture |-> <<>>],
              SubSeq(str, 1, i - 1), 1, k).state = DEFAULT

\* The markers of str that a character ends: <<i, j>> where a '$' is read in
\* the Default state at i and the first non-digit after it stands at j.
EndedMarkers(str, k) ==
  {<<i, DigitsEnd(str, i + 1)>> : i \in
     {h \in 1..Len(str) : /\ str[h] = DOLLAR
                          /\ DefaultAt(str, h, k)
                          /\ DigitsEnd(str, h + 1) <= Len(str)}}

\* C20: the character that ends a parameter marker is handled as if it had
\* been read in the Default state: the output is the output for the text
\* before the marker, the shifted marker, and the output of reindex for the
\* text that starts at the ending character (a quote there opens a literal,
\* a '$' there starts a marker that is shifted).
C20_TerminatorReadInDefault ==
  called =>
    \A m \in EndedMarkers(s, base) :
      result = reindex(SubSeq(s, 1, m[1] - 1), base)
                 \o ParamText(SubSeq(s, m[1] + 1, m[2] - 1), base)
                 \o reindex(SubSeq(s, m[2], Len(s)), base)

\* --------------------------------------------------- claims on the updates
\* The SET list "n1 = $b, n2 = $(b+1), ..." for columns cols numbered from b.
NumberedSet(cols, b) ==
  Join([i \in 1..Len(cols) |->
          cols[i].name \o <<" = ", DOLLAR>> \o Itoa(b + i - 1)], ", ")

\* The SET list "n1 = ?, n2 = ?, ..." for columns cols.
UnnumberedSet(cols) ==
  Join([i \in 1..Len(cols) |-> cols[i].name \o <<" = ", "?">>], ", ")

ColumnValues(cols) == [i \in 1..Len(cols) |-> cols[i].value]

\* The columns C7 claims for record x: annotated, not excluded, not zero.
ClaimedColumns(x) == UpdateColumns(x, TypeFields(x.type), <<>>, 1, FALSE)

\* C4: the statement of an update with k SET columns numbers the SET
\* placeholders $1..$k in SET-list order and carries every placeholder $n of
\* the WHERE fragment as $(n+k).
C4_SetNumberedWhereShifted ==
  \A i \in 1..Len(pending) :
    pending[i].err = NoError =>
      Statement(pending[i]) =
        <<"UPDATE ", "T", " SET ">> \o NumberedSet(ClaimedColumns(upd), 1)
          \o <<" WHERE ">>
          \o Shifted(whereCalls[i].where, 1, "out", Len(ClaimedColumns(upd)))

\* C5: the arguments handed to db.Exec are the SET arguments, in SET-list
\* order, followed by the WHERE arguments of the Where call that made the
\* PendingUpdate, in the order given.
C5_ArgsAreSetThenWhere ==
  \A j \in 1..Len(execs) :
    execs[j].dbCalled =>
      execs[j].args = Elems(heap, u.args) \o whereCalls[execs[j].p].args

\* C6: update(table, record, where, whereArgs...) keeps the WHERE fragment
\* as written, numbers the SET placeholders from $(len(whereArgs)+1) and
\* returns the WHERE arguments followed by the SET arguments.
C6_WhereKeptSetNumberedAfter ==
  (pre.err = NoError) =>
    LET cols == UpdateColumns(upd, TypeFields(upd.type), <<>>, 1, TRUE)
    IN /\ pre.statement =
            <<"UPDATE ", "T", " SET ">>
              \o NumberedSet(cols, Len(updCall.args) + 1)
              \o <<" WHERE ">> \o updCall.where
       /\ pre.args = updCall.args \o ColumnValues(cols)

\* What C7 asks of Set when the claimed columns of the record are cols.
SetMatches(cols) ==
  IF cols = <<>>
    THEN u.out = "err" /\ u.err = ErrNoFields
    ELSE /\ u.out = "ok"
         /\ u.set = UnnumberedSet(cols)
         /\ Elems(heap, u.args) = ColumnValues(cols)

\* C7: Set lists exactly the annotated, not excluded, non-zero fields of the
\* record, in declaration order with embedded structs expanded, and fails
\* with "no fields to update" when there is none. An unexported annotated
\* field may be read either way: listed (the claim's words) or skipped (4.1).
C7_SetListsNonZeroFields ==
  (u.out # "none" /\ KindOf(upd) = "struct") =>
    \/ SetMatches(ClaimedColumns(upd))
    \/ SetMatches(UpdateColumns(upd, TypeFields(upd.type), <<>>, 1, TRUE))

\* ---------------------------------------------------- claims on the inserts
\* The columns of a struct type for the insert context as the specification
\* resolves them: annotated, not excluded for insert, embedded fields
\* expanded in place; each with the index sequence of its field.
RECURSIVE ClaimedInsertColumns(_, _, _)
ClaimedInsertColumns(t, index, i) ==
  IF i > Len(t) THEN <<>>
  ELSE
    LET field == t[i]
        path == Append(index, i)
        here ==
          IF field.anonymous THEN ClaimedInsertColumns(field.fields, path, 1)
          ELSE IF field.tag.ok
                  /\ ~parseTag(field.tag.value, <<"insert">>).ignore
            THEN <<[name |-> parseTag(field.tag.value, <<"insert">>).name,
                    path |-> path]>>
          ELSE <<>>
    IN here \o ClaimedInsertColumns(t, index, i + 1)

\* The columns of the records handed to Insert.
ValuesColumns == ClaimedInsertColumns(TypeFields(values.elems[1].type), <<>>, 1)

\* The numbers of the markers $n of text from index i on, left to right.
RECURSIVE MarkerNumbers(_, _)
MarkerNumbers(text, i) ==
  IF i > Len(text) THEN <<>>
  ELSE IF text[i] = DOLLAR
    THEN <<Atoi(SubSeq(text, i + 1, DigitsEnd(text, i + 1) - 1))>>
           \o MarkerNumbers(text, DigitsEnd(text, i + 1))
    ELSE MarkerNumbers(text, i + 1)

\* The number of value tuples of an insert statement: the opening
\* parentheses after " values".
TupleCount(text) ==
  LET k == CHOOSE i \in 1..Len(text) : text[i] = " values"
  IN Cardinality({i \in (k + 1)..Len(text) : text[i] = "("})

\* C8: an insert of r >= 1 records with c >= 1 columns has r value tuples and
\* the placeholders $1, $2, ..., $(c*r) from left to right, none twice.
C8_PlaceholdersFreshSequential ==
  ins.out = "ok" =>
    LET n == Len(ValuesColumns) * Len(values.elems)
    IN /\ TupleCount(ins.statement) = Len(values.elems)
       /\ MarkerNumbers(ins.statement, 1) = [i \in 1..n |-> i]

\* C9: the arguments of an insert of r records with c columns are c*r values
\* in row-major order: position i*c + j holds the value, in record i, of the
\* field that resolved to column j.
C9_ArgsRowMajor ==
  ins.out = "ok" =>
    LET c == Len(ValuesColumns)
        r == Len(values.elems)
    IN /\ Len(ins.args) = c * r
       /\ \A i \in 0..(r - 1), j \in 0..(c - 1) :
            ins.args[i * c + j + 1]
              = FieldByIndex(values.elems[i + 1], ValuesColumns[j + 1].path)

\* The values are a sequence holding records of two different types.
MixedTypes ==
  /\ values.kind = "slice"
  /\ \E i, j \in 1..Len(values.elems) :
       values.elems[i].type # values.elems[j].type

\* C10: Insert over a sequence of records of two different types fails with
\* the type-mismatch error and no other, and db.Exec is not called.
C10_MixedTypesGiveTypeMismatch ==
  (ins.out # "none" /\ MixedTypes) =>
    ins.out = "err" /\ ins.err = ErrTypeMismatch /\ dbExec = <<>>

\* --------------------------------------------------- claims on annotations
\* The spellings of a context word.
Spellings(ctx) ==
  CASE ctx = "insert" -> {"insert", "Insert", "INSERT"}
    [] ctx = "update" -> {"update", "Update", "UPDATE"}
    [] ctx = "select" -> {"select", "Select", "SELECT"}

\* The context ctx is listed after the name of annotation a: some word
\* between two "/" or after the last one is a spelling of ctx.
Listed(a, ctx) ==
  \E j \in 2..Len(a) : a[j - 1] = "/" /\ a[j] \in Spellings(ctx)

\* The part of annotation a that precedes its first "/".
NamePart(a) ==
  IF \E k \in 1..Len(a) : a[k] = "/"
    THEN SubSeq(a, 1, (CHOOSE k \in 1..Len(a) :
                         a[k] = "/" /\ \A j \in 1..(k - 1) : a[j] # "/") - 1)
    ELSE a

\* C11: a field is excluded from a context exactly when its annotation is
\* the bare "-" or lists the context, in any case, after the name; otherwise
\* it is included under the name that precedes the first "/".
C11_ExcludedIffDashOrListed ==
  parsed.called =>
    /\ parsed.ignore <=> (tag = <<"-">> \/ Listed(tag, context))
    /\ ~parsed.ignore => parsed.name = NamePart(tag)

\* A field excluded for insert is parsed for update and stays included.
C11_Witness ==
  /\ parsed.called
  /\ tag = <<"a", "/", "Insert">>
  /\ context = "update"
  /\ ~parsed.ignore
  /\ parsed.name = <<"a">>

\* ------------------------------------------- claims on unexported fields
\* The insert columns of a struct type with the unexported fields skipped.
VisibleInsertColumns(t) ==
  LET cols == ClaimedInsertColumns(t, <<>>, 1)
  IN SelectSeq(cols, LAMBDA c : FieldAt(t, c.path).exported)

\* The column list of an insert statement: the text between "(" and ")".
ColumnList(text) ==
  SubSeq(text, 4, (CHOOSE i \in 1..Len(text) : text[i] = " values") - 2)

\* C12: an unexported field never produces a column, whatever its
\* annotation: Insert of records of one struct type returns, and the column
\* list of its statement names the exported annotated fields only.
C12_UnexportedNeverAColumn ==
  (ins.out # "none" /\ ins.err \notin {ErrNotStructs, ErrNoValues}) =>
    LET cols == VisibleInsertColumns(TypeFields(values.elems[1].type))
    IN IF cols = <<>>
         THEN ins.out = "err" /\ ins.err = ErrNoColumns
         ELSE /\ ins.out = "ok"
              /\ ColumnList(ins.statement)
                   = Join([i \in 1..Len(cols) |-> cols[i].name], ", ")

\* ------------------------------------------------------- claims on Scan
\* The rows Scan has processed so far.
RowsRead == SubSeq(cur.rows, 1, cur.pos)

\* Scan was called with a pointer and no error has come up so far.
ScanUnderWay == dest.ptr /\ sc.pc # "start" /\ sc.out \in {"none", "nil"}

\* The leaf fields of the element type and, per column, the field the
\* column names for select.
DestFields == Flat(ScanTypeFields(dest.type), 0)
ColumnField(c) == FieldByNameFunc(DestFields, cur.columns[c])
RepeatedColumns ==
  {c \in 1..Len(cur.columns) :
     ColumnField(c) # 0 /\ DestFields[ColumnField(c)].field.kind = "slice"}
KeyColumns ==
  {c \in 1..Len(cur.columns) : ColumnField(c) # 0} \ RepeatedColumns

\* The key of a row: its values in the columns of non-repeated fields.
KeyOf(row) == [c \in KeyColumns |-> row[c]]

\* The non-NULL values of column c over the rows from m on whose key is key.
RECURSIVE Collected(_, _, _, _)
Collected(rows, m, key, c) ==
  IF m > Len(rows) THEN <<>>
  ELSE (IF KeyOf(rows[m]) = key /\ rows[m][c] # "NULL"
          THEN <<rows[m][c]>> ELSE <<>>)
         \o Collected(rows, m + 1, key, c)

\* The record C13 claims for the key of row n of rows.
GroupRecord(rows, n) ==
  [f \in 1..Len(DestFields) |->
     IF \E c \in 1..Len(cur.columns) : ColumnField(c) = f
       THEN LET c == CHOOSE c \in 1..Len(cur.columns) : ColumnField(c) = f
            IN IF DestFields[f].field.kind = "slice"
                 THEN Collected(rows, 1, KeyOf(rows[n]), c)
               ELSE Received(DestFields[f].field.kind, rows[n][c])
     ELSE ZeroField(DestFields[f].field.kind)]

\* The rows that are the first of their key, in row order.
RECURSIVE FirstOfKey(_, _)
FirstOfKey(rows, n) ==
  IF n > Len(rows) THEN <<>>
  ELSE (IF \A m \in 1..(n - 1) : KeyOf(rows[m]) # KeyOf(rows[n])
          THEN <<n>> ELSE <<>>)
         \o FirstOfKey(rows, n + 1)

Grouped(rows) ==
  LET firsts == FirstOfKey(rows, 1)
  IN [k \in 1..Len(firsts) |-> GroupRecord(rows, firsts[k])]

HasRepeated(tn) ==
  \E i \in 1..Len(ScanTypeFields(tn)) : ScanTypeFields(tn)[i].kind = "slice"

\* C13: scanning rows into an empty sequence of records whose type has a
\* repeated field gives one record per distinct key, in order of first
\* appearance, whose repeated field holds the non-NULL values of its column
\* over the rows of that key, in row order.
C13_OneRecordPerKey ==
  (ScanUnderWay /\ dest.kind = "slice" /\ dest0.val = <<>>
     /\ HasRepeated(dest.type))
    => dest.val = Grouped(RowsRead)

\* Every returned column can be stored: it names one exported field of a
\* struct element type, or is the only column for a base element type.
Mappable ==
  IF IsStructType(dest.type)
    THEN \A c \in 1..Len(cur.columns) :
           ColumnField(c) # 0 /\ DestFields[ColumnField(c)].field.exported
    ELSE Len(cur.columns) = 1

\* rows.Scan can store every value of row: no NULL meets a field that is
\* neither a pointer nor repeated.
Storable(row) ==
  \A c \in 1..Len(cur.columns) :
    row[c] = "NULL" =>
      /\ IsStructType(dest.type)
      /\ DestFields[ColumnField(c)].field.kind \in {"ptr", "slice"}

\* Field f of the scalar destination is matched by a returned column.
Matched(f) == \E c \in 1..Len(cur.columns) : ColumnField(c) = f

\* Field f of the scalar destination holds the first row's value of its
\* column: a repeated field as a singleton when the value is not NULL.
HoldsFirstRow(f) ==
  LET c == CHOOSE c \in 1..Len(cur.columns) : ColumnField(c) = f
      x == cur.rows[1][c]
      kind == DestFields[f].field.kind
  IN IF kind = "slice" THEN (x # "NULL" => dest.val[1][f] = <<x>>)
     ELSE dest.val[1][f] = Received(kind, x)

\* The scalar destination holds the first row and nothing else has changed.
FirstRowStored ==
  IF IsStructType(dest.type)
    THEN \A f \in 1..Len(DestFields) :
           IF Matched(f) THEN HoldsFirstRow(f)
           ELSE dest.val[1][f] = dest0.val[1][f]
    ELSE dest.val = <<<<<<cur.rows[1][1]>>>>>>

\* C14: Scan into a scalar destination calls rows.Next() at most once and
\* reads no second row; over zero rows it fails with the no-rows error, over
\* more it stores the first row and succeeds.
C14_ScalarReadsFirstRowOnly ==
  (dest.ptr /\ dest.kind = "scalar" /\ ~cur.queryErr /\ Mappable) =>
    /\ cur.nexts <= 1 /\ cur.pos <= 1
    /\ (sc.pc = "done" /\ cur.rows = <<>> /\ ~cur.failing)
         => (sc.out = "err" /\ sc.err = ErrNoRows)
    /\ (sc.pc = "done" /\ cur.rows # <<>> /\ Storable(cur.rows[1]))
         => (sc.out = "nil" /\ FirstRowStored)

\* C15: once db.Query has returned a cursor, Scan closes it, once, before
\* it returns, on every exit path; until then the cursor is not closed.
C15_CursorClosedOnReturn ==
  ~cur.queryErr =>
    /\ sc.pc = "done" => (cur.state = "closed" /\ cur.closes = 1)
    /\ sc.pc # "done" => cur.closes = 0

\* Scan has returned a row-scan error after reading a row, cursor closed.
C15_Witness ==
  /\ sc.pc = "done"
  /\ sc.err = ErrScan
  /\ cur.pos = 2
  /\ cur.state = "closed"

\* C16: Scan into a destination of a base element type fails with the
\* column-count error whenever the query returns other than one column,
\* whatever the number of rows, zero included.
C16_BaseNeedsOneColumn ==
  (sc.pc = "done" /\ dest.ptr /\ ~cur.queryErr /\ ~cur.failing
     /\ ~IsStructType(dest.type) /\ Len(cur.columns) # 1)
    => (sc.out = "err" /\ sc.err = ErrColumnCount)

\* Some returned column is the annotated name of no field included for
\* select.
SomeColumnUnmatched ==
  \E c \in 1..Len(cur.columns) :
    \A f \in 1..Len(DestFields) :
      ~MatchesColumn(DestFields[f].field, cur.columns[c])

\* C17: Scan into a record destination fails with the 'no field for column'
\* error whenever some returned column matches no field, whatever the number
\* of rows, zero included.
C17_UnmatchedColumnFails ==
  (sc.pc = "done" /\ dest.ptr /\ ~cur.queryErr /\ ~cur.failing
     /\ IsStructType(dest.type) /\ SomeColumnUnmatched)
    => (sc.out = "err" /\ sc.err = ErrNoField)

\* C18: after a successful Scan into a scalar record destination every field
\* matched by no returned column holds the value it had before the call and
\* every matched field holds the first row's value.
C18_UnmatchedFieldsKept ==
  (sc.pc = "done" /\ sc.out = "nil" /\ dest.kind = "scalar"
     /\ IsStructType(dest.type))
    => \A f \in 1..Len(DestFields) :
         /\ Matched(f) => HoldsFirstRow(f)
         /\ ~Matched(f) => dest.val[1][f] = dest0.val[1][f]

\* The fields that column c names for select, and those of them that lie at
\* the least depth of embedding.
Matching(c) ==
  {f \in 1..Len(DestFields) : MatchesColumn(DestFields[f].field, cur.columns[c])}
Shallowest(c) ==
  {f \in Matching(c) :
     \A g \in Matching(c) : DestFields[f].depth <= DestFields[g].depth}

\* Scan has read a row without NULL into a record destination, every
\* returned column names a field, and some column names several.
SeveralMatch ==
  /\ dest.ptr /\ IsStructType(dest.type) /\ cur.pos >= 1
  /\ \A c \in 1..Len(cur.columns) : Matching(c) # {}
  /\ \E c \in 1..Len(cur.columns) : Cardinality(Matching(c)) > 1
  /\ \A c \in 1..Len(cur.columns) : cur.rows[cur.pos][c] # "NULL"

\* The element the row just read went to: the destination itself, or the
\* last element of the destination sequence.
RowElement == dest.val[Len(dest.val)]

\* Column c of the row just read is stored in field f.
StoredIn(c, f) ==
  RowElement[f] = Received(DestFields[f].field.kind, cur.rows[cur.pos][c])

RowRecord(row) ==
  IF IsStructType(dest.type)
    THEN [f \in 1..Len(DestFields) |->
            IF Matched(f)
              THEN Received(DestFields[f].field.kind,
                            row[CHOOSE c \in 1..Len(cur.columns) :
                                  ColumnField(c) = f])
            ELSE ZeroField(DestFields[f].field.kind)]
    ELSE <<<<row[1]>>>>

\* C22: Scan into a sequence whose element type is a base type or a record
\* type with no repeated field adds one element per row read, in row order,
\* identical rows included.
C22_OneElementPerRow ==
  (ScanUnderWay /\ dest.kind = "slice" /\ ~HasRepeated(dest.type)) =>
    /\ Len(dest.val) = Len(dest0.val) + cur.pos
    /\ \A n \in 1..cur.pos :
         dest.val[Len(dest0.val) + n] = RowRecord(cur.rows[n])

\* C22's case: three rows read into a sequence of records, the first two
\* identical, three elements added.
C22_Witness ==
  /\ sc.pc = "done" /\ sc.out = "nil"
  /\ dest.kind = "slice" /\ dest.type = "rec"
  /\ cur.pos = 3
  /\ cur.rows[1] = cur.rows[2]
  /\ Len(dest.val) = Len(dest0.val) + 3

\* C25: after a successful Scan into a scalar record destination, every
\* repeated field matched by a returned column whose value in the first row
\* is not NULL is the singleton of that value.
C25_ScalarRepeatedFieldSingleton ==
  (sc.pc = "done" /\ sc.out = "nil" /\ dest.kind = "scalar"
     /\ IsStructType(dest.type))
    => \A c \in RepeatedColumns :
         cur.rows[1][c] # "NULL"
           => dest.val[1][ColumnField(c)] = <<cur.rows[1][c]>>

\* Elements x and y have the same values in the non-repeated fields.
SameKey(x, y) ==
  IF IsStructType(dest.type)
    THEN \A f \in 1..Len(DestFields) :
           DestFields[f].field.kind # "slice" => x[f] = y[f]
    ELSE x = y

\* C26: every step of Scan into a sequence destination leaves the elements
\* that are in it at their positions with their non-repeated fields
\* unchanged and does not shorten it: what a row adds comes after them.
C26_SequenceOnlyAppended ==
  [][dest.kind = "slice" =>
       /\ Len(dest'.val) >= Len(dest.val)
       /\ \A i \in 1..Len(dest.val) : SameKey(dest'.val[i], dest.val[i])]_vars

\* C26's case: Scan has read rows into a sequence that held an element: one
\* row went into that element's repeated field, another became a new element
\* after it.
C26_Witness ==
  /\ sc.pc = "done" /\ sc.out = "nil"
  /\ dest.kind = "slice" /\ dest.type = "agg"
  /\ Len(dest0.val) = 1 /\ Len(dest.val) = 2
  /\ dest.val[1][1] = dest0.val[1][1]
  /\ dest.val[1][2] # dest0.val[1][2]

\* ------------------------------------------- claims on column resolution
\* C23: the columns of an insert are the annotated fields included for
\* insert, embedded records expanded in place, depth first, in declaration
\* order, at any depth; and the argument of each column is the value of the
\* field the column was resolved from.
C23_ColumnsKeepTheirPaths ==
  ins.out = "ok" =>
    /\ StatementColumns(ins.statement)
         = [j \in 1..Len(ValuesColumns) |-> ValuesColumns[j].name[1]]
    /\ \A j \in 1..Len(ValuesColumns) :
         ins.args[j] = FieldByIndex(values.elems[1], ValuesColumns[j].path)

\* ---------------------------------------------------- claims on executions
\* What Insert has handed to db.Exec once it has returned, and its error.
InsertExecutedOnceIffBuilt ==
  ins.out # "none" =>
    /\ Len(dbExec) = (IF ins.out = "ok" THEN 1 ELSE 0)
    /\ ins.out = "ok" =>
         dbExec[1] = [statement |-> ins.statement, args |-> ins.args]
    /\ (\/ values.kind \notin {"struct", "slice"}
        \/ values.elems = <<>>
        \/ values.elems[1].type = "nocol")
         => ins.out = "err"
    /\ ins.out = "err"
         => ins.err \in {ErrNotStructs, ErrNoValues, ErrTypeMismatch,
                         ErrNoColumns}

\* A step that is a call of Exec on a pending update: what it hands over.
UpdateExecutedOnceIffBuilt ==
  execs' # execs =>
    LET e == execs'[Len(execs')]
        p == pending[e.p]
    IN /\ Len(execs') = Len(execs) + 1
       /\ e.dbCalled = (e.err = NoError)
       /\ e.dbCalled
            => (e.statement = Statement(p) /\ e.args = Args(heap, p))
       /\ KindOf(upd) # "struct" => e.err = ErrNotStruct
       /\ (KindOf(upd) = "struct"
             /\ UpdateColumns(upd, TypeFields(upd.type), <<>>, 1, FALSE) = <<>>)
            => e.err = ErrNoFields
       /\ ~e.dbCalled => e.err \in {ErrNotStruct, ErrNoFields}

SelectedFields ==
  {FieldByNameFunc(DestFields, cur.columns[c]) : c \in 1..Len(cur.columns)}
    \ {0}

\* C19: after Insert of a non-empty sequence of records of one type into the
\* empty table and Scan of all its rows into an empty sequence of that type,
\* Scan has succeeded and the sequence holds one record per inserted record,
\* in insertion order, equal to it on every selected field.
C19_RoundTrip ==
  (ins.out = "ok" /\ sc.pc = "done") =>
    /\ sc.out = "nil"
    /\ Len(dest.val) = Len(values.elems)
    /\ \A i \in 1..Len(values.elems) : \A f \in SelectedFields :
         dest.val[i][f] = <<values.elems[i].val[f]>>

====
